---- MODULE Spec2Model ----
(***************************************************************************)
(* The users resource of src/storage/user.go: three gin handlers           *)
(* (GetUsers, CreateUser, UpdateUser) over one MongoDB collection.  Each   *)
(* request runs in its own goroutine; a handler is split at its store      *)
(* calls, which are the only points where requests observe each other.     *)
(* The store (mongo-driver calls on `collection` and `cursor`) is modelled *)
(* by its documented semantics: every call is atomic on the collection,    *)
(* and a call that returns an error has had no effect.                     *)
(***************************************************************************)
EXTENDS Integers, Sequences, FiniteSets, TLC

VARIABLES collection, objectIDCounter, req, acked, served

vars == <<collection, objectIDCounter, req, acked, served>>

(* ------------------------------ bounds --------------------------------- *)

\* Requests received over the whole run.
MaxRequests == 3

\* The goroutines that serve requests concurrently.
Workers == {"g1", "g2"}

(* ------------------------------ values --------------------------------- *)

\* BSON / JSON scalars, tagged with their type: an ObjectID never equals a
\* string, whatever the string spells.
Oid(n) == [t |-> "objectId", n |-> n, s |-> <<>>]
Str(s) == [t |-> "string", n |-> 0, s |-> s]
Num(n) == [t |-> "number", n |-> n, s |-> <<>>]

\* primitive.NilObjectID, the zero value of a models.User's Id.
NilObjectID == 0

\* Length of an ObjectID's hex form (12 bytes).
HexLen == 24

\* Value of the driver's ObjectID counter when the process starts.
InitialCounter == 9

HexDigits == <<"0", "1", "2", "3", "4", "5", "6", "7", "8", "9",
               "a", "b", "c", "d", "e", "f">>

UpperDigits == <<"0", "1", "2", "3", "4", "5", "6", "7", "8", "9",
                 "A", "B", "C", "D", "E", "F">>

\* encoding/hex: the value of each hex digit, of either case.
HexTable ==
    [c \in {HexDigits[i] : i \in 1..16} \cup {UpperDigits[i] : i \in 1..16} |->
        (CHOOSE i \in 1..16 : HexDigits[i] = c \/ UpperDigits[i] = c) - 1]

\* The value of one character, -1 when it is no hex digit.
HexVal(c) == IF c \in DOMAIN HexTable THEN HexTable[c] ELSE -1

RECURSIVE HexOf(_, _, _)
HexOf(n, len, digits) ==
    IF len = 0 THEN <<>>
    ELSE Append(HexOf(n \div 16, len - 1, digits), digits[(n % 16) + 1])

\* ObjectID.Hex(): the identifier as clients see it.
Hex(n) == HexOf(n, HexLen, HexDigits)

UpperHex(n) == HexOf(n, HexLen, UpperDigits)

RECURSIVE HexDecode(_)
HexDecode(s) ==
    IF s = <<>> THEN 0
    ELSE HexDecode(SubSeq(s, 1, Len(s) - 1)) * 16 + HexVal(s[Len(s)])

\* primitive.ObjectIDFromHex: 24 hex characters or an error.
ObjectIDFromHex(s) ==
    IF Len(s) # HexLen \/ \E i \in 1..Len(s) : HexVal(s[i]) < 0
    THEN [err |-> TRUE, id |-> NilObjectID]
    ELSE [err |-> FALSE, id |-> HexDecode(s)]

(* --------------------------- request bodies ---------------------------- *)

\* A request body as the JSON decoder sees it: text that is not JSON, the
\* literal null, or an object (a mapping of field names to values).
Malformed == [kind |-> "malformed", fields |-> [f \in {} |-> Num(0)]]
JSONNull == [kind |-> "null", fields |-> [f \in {} |-> Num(0)]]
Object(m) == [kind |-> "object", fields |-> m]

\* The objects whose fields are drawn from vals, a function from each field
\* name to the values tried for it.
ObjectsOver(vals) ==
    LET all == UNION {vals[f] : f \in DOMAIN vals}
    IN  {m \in UNION {[F -> all] : F \in SUBSET DOMAIN vals} :
            \A f \in DOMAIN m : m[f] \in vals[f]}

NameX == Str(<<"X">>)
NameY == Str(<<"Y">>)

\* Bodies sent to POST /users/: with and without an `_id` (the identifiers
\* the server will generate next, so a client-supplied one can collide),
\* with a well-typed, an ill-typed and no name.
CreateBodies ==
    {Malformed, JSONNull} \cup
    {Object(m) : m \in ObjectsOver(
        [_id |-> {Str(Hex(InitialCounter + 1)), Str(Hex(InitialCounter + 2))},
         name |-> {NameX, Num(7)}])}

\* Bodies sent to PATCH /users/:id.
UpdateBodies ==
    {Malformed, JSONNull} \cup
    {Object(m) : m \in ObjectsOver(
        [_id |-> {Str(Hex(InitialCounter + 2))},
         name |-> {NameX, NameY},
         age |-> {Num(7)}])}

\* Path parameters sent to PATCH /users/:id: the hex form of an identifier
\* never generated, of the first identifiers generated (lower and upper
\* case), a string of the wrong length and one with a character outside hex.
PathParams ==
    {Hex(InitialCounter + k) : k \in 0..2} \cup
    {UpperHex(InitialCounter + 1),
     <<"n", "o", "t", "-", "a", "n", "-", "i", "d">>,
     [i \in 1..HexLen |-> IF i = HexLen THEN "g" ELSE "0"]}

(* ------------------------- models.User, binding ------------------------ *)

\* models.User: Id plus the application's fields.
ZeroUser == [Id |-> NilObjectID, Name |-> <<>>, Email |-> <<>>]

\* bson.Marshal of a models.User: the document InsertOne stores.
UserDoc(user) ==
    [_id |-> Oid(user.Id), name |-> Str(user.Name), email |-> Str(user.Email)]

\* c.BindJSON(&user): the body decoded into a models.User.  A field of the
\* wrong JSON type is an error; fields the struct lacks are ignored.
BindJSONUser(body) ==
    IF body.kind = "malformed"
    THEN [err |-> "invalid character", user |-> ZeroUser]
    ELSE LET m == body.fields
             hasId == "_id" \in DOMAIN m
             hasName == "name" \in DOMAIN m
             idOk == ~hasId \/ (m["_id"].t = "string" /\ ~ObjectIDFromHex(m["_id"].s).err)
             nameOk == ~hasName \/ m["name"].t = "string"
         IN  IF ~(idOk /\ nameOk)
             THEN [err |-> "cannot unmarshal", user |-> ZeroUser]
             ELSE [err |-> "",
                   user |-> [Id |-> IF hasId THEN ObjectIDFromHex(m["_id"].s).id
                                    ELSE NilObjectID,
                             Name |-> IF hasName THEN m["name"].s ELSE <<>>,
                             Email |-> <<>>]]

\* A map[string]interface{}: nil, or a mapping.
NilMap == [isNil |-> TRUE, m |-> [f \in {} |-> Num(0)]]
MapOf(m) == [isNil |-> FALSE, m |-> m]

\* c.BindJSON(&updatedData): JSON null leaves the map nil and is no error.
BindJSONMap(body) ==
    CASE body.kind = "malformed" -> [err |-> "invalid character", data |-> NilMap]
      [] body.kind = "null" -> [err |-> "", data |-> NilMap]
      [] OTHER -> [err |-> "", data |-> MapOf(body.fields)]

\* primitive.NewObjectID: the counter is advanced atomically and its new
\* value is the identifier (timestamp and process bytes are a fixed prefix).
NewObjectID(counter) == counter + 1

(* ------------------------------ the store ------------------------------ *)

\* Indexes of the documents whose _id is the ObjectID id.
Matching(coll, id) == {i \in 1..Len(coll) : coll[i]["_id"] = Oid(id)}

\* A replacement instead of a merge: the document becomes m under its _id.
SetFieldsReplace(doc, m) ==
    [f \in {"_id"} \cup DOMAIN m |-> IF f \in DOMAIN m THEN m[f] ELSE doc[f]]

\* $set: the fields of m are set on doc, the others are kept.
SetFields(doc, m) ==
    [f \in DOMAIN doc \cup DOMAIN m |-> IF f \in DOMAIN m THEN m[f] ELSE doc[f]]

\* collection.Find(ctx, bson.D{}): a cursor over every document, in natural
\* order.
Find(coll, down) ==
    IF down THEN [err |-> "unavailable", cursor |-> <<>>]
    ELSE [err |-> "", cursor |-> coll]

\* A []bson.M: nil, or a slice of documents.
NilSlice == [isNil |-> TRUE, docs |-> <<>>]
SliceOf(docs) == [isNil |-> FALSE, docs |-> docs]

\* Only the first document of the cursor is decoded.
CursorAllFirst(cursor, users, down) ==
    IF down THEN [err |-> "unavailable", users |-> users]
    ELSE IF cursor = <<>> THEN [err |-> "", users |-> users]
    ELSE [err |-> "", users |-> SliceOf(<<cursor[1]>>)]

\* cursor.All(ctx, &users): the documents of the cursor are appended to a
\* slice that replaces users; with no document the (nil) slice stays nil.
CursorAll(cursor, users, down) ==
    IF down THEN [err |-> "unavailable", users |-> users]
    ELSE IF cursor = <<>> THEN [err |-> "", users |-> users]
    ELSE [err |-> "", users |-> SliceOf(cursor)]

\* collection.InsertOne(ctx, user): _id carries a unique index.
InsertOne(coll, doc, down) ==
    IF down THEN [err |-> "unavailable", coll |-> coll, InsertedID |-> NilObjectID]
    ELSE IF \E i \in 1..Len(coll) : coll[i]["_id"] = doc["_id"]
    THEN [err |-> "duplicate key", coll |-> coll, InsertedID |-> NilObjectID]
    ELSE [err |-> "", coll |-> Append(coll, doc), InsertedID |-> doc["_id"].n]

\* The index of the first document UpdateOne's filter matches.
FirstMatch(coll, objId) ==
    CHOOSE j \in Matching(coll, objId) : \A k \in Matching(coll, objId) : j <= k

UpdateResult(err, coll, matched, modified) ==
    [err |-> err, coll |-> coll, MatchedCount |-> matched, ModifiedCount |-> modified]

\* UpdateOne with upsert: a filter that matches nothing inserts a document.
UpdateOneUpsert(coll, objId, data, down) ==
    IF down THEN UpdateResult("unavailable", coll, 0, 0)
    ELSE IF data.isNil THEN UpdateResult("$set is not a document", coll, 0, 0)
    ELSE IF Matching(coll, objId) = {}
    THEN UpdateResult("", Append(coll, SetFields([_id |-> Oid(objId)], data.m)), 0, 0)
    ELSE LET i == FirstMatch(coll, objId)
             doc == SetFields(coll[i], data.m)
         IN  IF "_id" \in DOMAIN data.m /\ data.m["_id"] # coll[i]["_id"]
             THEN UpdateResult("_id is immutable", coll, 0, 0)
             ELSE UpdateResult("", [coll EXCEPT ![i] = doc], 1,
                               IF doc = coll[i] THEN 0 ELSE 1)

\* UpdateOne over a store that lets $set write any field, _id included.
UpdateOneAnyField(coll, objId, data, down) ==
    IF down THEN UpdateResult("unavailable", coll, 0, 0)
    ELSE IF data.isNil THEN UpdateResult("$set is not a document", coll, 0, 0)
    ELSE IF Matching(coll, objId) = {} THEN UpdateResult("", coll, 0, 0)
    ELSE LET i == FirstMatch(coll, objId)
             doc == SetFields(coll[i], data.m)
         IN  UpdateResult("", [coll EXCEPT ![i] = doc], 1,
                          IF doc = coll[i] THEN 0 ELSE 1)

\* collection.UpdateOne(ctx, {_id: objId}, {$set: updatedData}): no upsert.
\* A $set that is not a document is rejected; so is one that would change
\* the _id of the matched document.
UpdateOne(coll, objId, data, down) ==
    IF down THEN UpdateResult("unavailable", coll, 0, 0)
    ELSE IF data.isNil THEN UpdateResult("$set is not a document", coll, 0, 0)
    ELSE IF Matching(coll, objId) = {} THEN UpdateResult("", coll, 0, 0)
    ELSE LET i == FirstMatch(coll, objId)
             doc == SetFields(coll[i], data.m)
         IN  IF "_id" \in DOMAIN data.m /\ data.m["_id"] # coll[i]["_id"]
             THEN UpdateResult("_id is immutable", coll, 0, 0)
             ELSE UpdateResult("", [coll EXCEPT ![i] = doc], 1,
                               IF doc = coll[i] THEN 0 ELSE 1)

(* ----------------------------- responses ------------------------------ *)

NoResponse == [status |-> 0, msg |-> "", json |-> "none", docs |-> <<>>, insertedID |-> NilObjectID]

\* c.JSON(status, gin.H{"error": msg}) and c.JSON(status, gin.H{"message": msg}).
JSONMessage(status, msg) ==
    [status |-> status, msg |-> msg, json |-> "object", docs |-> <<>>, insertedID |-> NilObjectID]

\* c.JSON(http.StatusOK, users): encoding/json writes a nil slice as null
\* and any other slice as an array.
JSONUsers(users) ==
    [status |-> 200, msg |-> "",
     json |-> IF users.isNil THEN "null" ELSE "array",
     docs |-> users.docs, insertedID |-> NilObjectID]

\* c.JSON(http.StatusOK, gin.H{"insertedID": ..., "message": ...}).
JSONInserted(id) ==
    [status |-> 200, msg |-> "User created successfully", json |-> "object",
     docs |-> <<>>, insertedID |-> id]

(* ------------------------------ handlers ------------------------------- *)

\* A goroutine with no request: every local at its zero value.  `calls` is
\* the list of store calls the request has issued, `since` the identifiers
\* clients had been given when the request arrived, `boundId` the Id that
\* BindJSON left in user and `newId` the one NewObjectID returned.
Idle ==
    [op |-> "none", pc |-> "idle", since |-> {}, objId |-> NilObjectID,
     boundId |-> NilObjectID, newId |-> NilObjectID,
     updatedData |-> NilMap, user |-> ZeroUser, cursor |-> <<>>,
     users |-> NilSlice, err |-> "", calls |-> <<>>, resp |-> NoResponse]

Respond(r, resp) == [r EXCEPT !.pc = "done", !.resp = resp]

\* GetUsers up to its first store call.
GetUsersStart(known) == [Idle EXCEPT !.op = "list", !.pc = "find", !.since = known]

\* A failed Find is issued again instead of being answered.
AfterFindRetry(r, res) ==
    LET r1 == [r EXCEPT !.calls = Append(@, "Find"), !.err = res.err]
    IN  IF res.err # ""
        THEN [r1 EXCEPT !.err = ""]
        ELSE [r1 EXCEPT !.pc = "all", !.cursor = res.cursor, !.users = NilSlice]

\* GetUsers after collection.Find (lines 38-44).
AfterFind(r, res) ==
    LET r1 == [r EXCEPT !.calls = Append(@, "Find"), !.err = res.err]
    IN  IF res.err # ""
        THEN Respond(r1, JSONMessage(500, res.err))
        ELSE [r1 EXCEPT !.pc = "all", !.cursor = res.cursor, !.users = NilSlice]

\* GetUsers after cursor.All (lines 45-50); the deferred cursor.Close runs.
AfterAll(r, res) ==
    LET r1 == [r EXCEPT !.calls = Append(@, "All"), !.err = res.err, !.cursor = <<>>]
    IN  IF res.err # ""
        THEN Respond(r1, JSONMessage(500, res.err))
        ELSE Respond([r1 EXCEPT !.users = res.users], JSONUsers(res.users))

\* The generated identifier fills Id only when the body gave none.
AssignIdIfAbsent(user, id) == IF user.Id # NilObjectID THEN user ELSE [user EXCEPT !.Id = id]

\* user.Id = primitive.NewObjectID() (line 65).
AssignId(user, id) == [user EXCEPT !.Id = id]

\* The BindJSON error is not checked: the zero user goes on to the insert.
CreateUserStartUnchecked(body, counter) ==
    LET b == BindJSONUser(body)
        r == [Idle EXCEPT !.op = "create"]
    IN  [r |-> [r EXCEPT !.pc = "insert",
                         !.boundId = b.user.Id,
                         !.newId = NewObjectID(counter),
                         !.user = AssignId(b.user, NewObjectID(counter))],
         counter |-> NewObjectID(counter)]

\* CreateUser up to its store call (lines 58-65): the new request and the
\* ObjectID counter after it.
CreateUserStart(body, counter) ==
    LET b == BindJSONUser(body)
        r == [Idle EXCEPT !.op = "create"]
    IN  IF b.err # ""
        THEN [r |-> Respond([r EXCEPT !.err = b.err], JSONMessage(400, b.err)),
              counter |-> counter]
        ELSE [r |-> [r EXCEPT !.pc = "insert",
                              !.boundId = b.user.Id,
                              !.newId = NewObjectID(counter),
                              !.user = AssignId(b.user, NewObjectID(counter))],
              counter |-> NewObjectID(counter)]

\* CreateUser after collection.InsertOne (lines 67-72).
AfterInsert(r, res) ==
    LET r1 == [r EXCEPT !.calls = Append(@, "InsertOne"), !.err = res.err]
    IN  IF res.err # ""
        THEN Respond(r1, JSONMessage(500, res.err))
        ELSE Respond(r1, JSONInserted(res.InsertedID))

\* The body is checked before the identifier.
UpdateUserStartBodyFirst(param, body) ==
    LET parsed == ObjectIDFromHex(param)
        b == BindJSONMap(body)
        r == [Idle EXCEPT !.op = "update"]
    IN  IF b.err # ""
        THEN Respond([r EXCEPT !.err = b.err], JSONMessage(400, b.err))
        ELSE IF parsed.err
        THEN Respond([r EXCEPT !.err = "invalid hex"], JSONMessage(400, "Invalid user ID"))
        ELSE [r EXCEPT !.pc = "update", !.objId = parsed.id, !.updatedData = b.data]

\* UpdateUser up to its store call (lines 81-96).
UpdateUserStart(param, body) ==
    LET parsed == ObjectIDFromHex(param)
        b == BindJSONMap(body)
        r == [Idle EXCEPT !.op = "update"]
    IN  IF parsed.err
        THEN Respond([r EXCEPT !.err = "invalid hex"], JSONMessage(400, "Invalid user ID"))
        ELSE IF b.err # ""
        THEN Respond([r EXCEPT !.objId = parsed.id, !.err = b.err], JSONMessage(400, b.err))
        ELSE [r EXCEPT !.pc = "update", !.objId = parsed.id, !.updatedData = b.data]

\* "Not found" is decided by ModifiedCount instead of MatchedCount.
AfterUpdateByModified(r, res) ==
    LET r1 == [r EXCEPT !.calls = Append(@, "UpdateOne"), !.err = res.err]
    IN  IF res.err # ""
        THEN Respond(r1, JSONMessage(500, res.err))
        ELSE IF res.ModifiedCount = 0
        THEN Respond(r1, JSONMessage(404, "User not found"))
        ELSE Respond(r1, JSONMessage(200, "User updated successfully"))

\* UpdateUser after collection.UpdateOne (lines 99-109).
AfterUpdate(r, res) ==
    LET r1 == [r EXCEPT !.calls = Append(@, "UpdateOne"), !.err = res.err]
    IN  IF res.err # ""
        THEN Respond(r1, JSONMessage(500, res.err))
        ELSE IF res.MatchedCount = 0
        THEN Respond(r1, JSONMessage(404, "User not found"))
        ELSE Respond(r1, JSONMessage(200, "User updated successfully"))

(* ------------------------------- actions ------------------------------- *)

Init ==
    /\ collection = <<>>
    /\ objectIDCounter = InitialCounter
    /\ req = [w \in Workers |-> Idle]
    /\ acked = {}
    /\ served = 0

Accepts(w) == req[w].pc = "idle" /\ served < MaxRequests

\* GET /users/ arrives.
ReceiveList(w) ==
    /\ Accepts(w)
    /\ req' = [req EXCEPT ![w] = GetUsersStart(acked)]
    /\ served' = served + 1
    /\ UNCHANGED <<collection, objectIDCounter, acked>>

\* GetUsers: collection.Find and what follows it up to cursor.All.
ListFind(w, down) ==
    /\ req[w].pc = "find"
    /\ req' = [req EXCEPT ![w] = AfterFind(req[w], Find(collection, down))]
    /\ UNCHANGED <<collection, objectIDCounter, acked, served>>

\* GetUsers: cursor.All and the response.
ListAll(w, down) ==
    /\ req[w].pc = "all"
    /\ req' = [req EXCEPT ![w] =
                  AfterAll(req[w], CursorAll(req[w].cursor, req[w].users, down))]
    /\ UNCHANGED <<collection, objectIDCounter, acked, served>>

\* POST /users/ arrives: BindJSON and NewObjectID.
ReceiveCreate(w, body) ==
    /\ Accepts(w)
    /\ LET s == CreateUserStart(body, objectIDCounter)
       IN  /\ req' = [req EXCEPT ![w] = s.r]
           /\ objectIDCounter' = s.counter
    /\ served' = served + 1
    /\ UNCHANGED <<collection, acked>>

\* CreateUser: collection.InsertOne and the response.
CreateInsert(w, down) ==
    /\ req[w].pc = "insert"
    /\ LET res == InsertOne(collection, UserDoc(req[w].user), down)
           r == AfterInsert(req[w], res)
       IN  /\ req' = [req EXCEPT ![w] = r]
           /\ collection' = res.coll
           /\ acked' = IF r.resp.status = 200 THEN acked \cup {r.resp.insertedID}
                       ELSE acked
    /\ UNCHANGED <<objectIDCounter, served>>

\* PATCH /users/:id arrives: the identifier and the body are checked.
ReceiveUpdate(w, param, body) ==
    /\ Accepts(w)
    /\ req' = [req EXCEPT ![w] = UpdateUserStart(param, body)]
    /\ served' = served + 1
    /\ UNCHANGED <<collection, objectIDCounter, acked>>

\* UpdateUser: collection.UpdateOne and the response.
UpdateStore(w, down) ==
    /\ req[w].pc = "update"
    /\ LET res == UpdateOne(collection, req[w].objId, req[w].updatedData, down)
       IN  /\ req' = [req EXCEPT ![w] = AfterUpdate(req[w], res)]
           /\ collection' = res.coll
    /\ UNCHANGED <<objectIDCounter, acked, served>>

\* The handler returns and the goroutine is free again.
Return(w) ==
    /\ req[w].pc = "done"
    /\ req' = [req EXCEPT ![w] = Idle]
    /\ UNCHANGED <<collection, objectIDCounter, acked, served>>

Next ==
    \/ \E w \in Workers : ReceiveList(w)
    \/ \E w \in Workers, down \in BOOLEAN : ListFind(w, down)
    \/ \E w \in Workers, down \in BOOLEAN : ListAll(w, down)
    \/ \E w \in Workers, body \in CreateBodies : ReceiveCreate(w, body)
    \/ \E w \in Workers, down \in BOOLEAN : CreateInsert(w, down)
    \/ \E w \in Workers, param \in PathParams, body \in UpdateBodies :
          ReceiveUpdate(w, param, body)
    \/ \E w \in Workers, down \in BOOLEAN : UpdateStore(w, down)
    \/ \E w \in Workers : Return(w)

Spec == Init /\ [][Next]_vars

(* --------------------- two concurrent partial updates ------------------ *)

\* The state after one POST /users/ with body {"name": "X"} was served.
InitConc ==
    /\ collection = <<UserDoc([Id |-> NewObjectID(InitialCounter),
                               Name |-> NameX.s, Email |-> <<>>])>>
    /\ objectIDCounter = NewObjectID(InitialCounter)
    /\ req = [w \in Workers |-> Idle]
    /\ acked = {NewObjectID(InitialCounter)}
    /\ served = 1

\* Each goroutine serves one PATCH; neither returns before the other is
\* done, so the two requests overlap in every behaviour.
NextConc ==
    \/ \E w \in Workers, param \in PathParams, body \in UpdateBodies :
          ReceiveUpdate(w, param, body)
    \/ \E w \in Workers, down \in BOOLEAN : UpdateStore(w, down)

SpecConc == InitConc /\ [][NextConc]_vars

(* ------------------------------- claims -------------------------------- *)

Done(w, op) == req[w].op = op /\ req[w].pc = "done"

\* The identifiers of the documents in docs.
IdsOf(docs) == {docs[k]["_id"] : k \in 1..Len(docs)}

\* C1: a List that succeeds returns an array holding a document for every
\* identifier a Create had answered with before the List arrived, whatever
\* Create and Update requests ran in between.
C1_CreateThenList ==
    \A w \in Workers :
        Done(w, "list") /\ req[w].resp.status = 200 =>
            \A i \in req[w].since :
                req[w].resp.json = "array" /\ Oid(i) \in IdsOf(req[w].resp.docs)

\* A List answered after a Create and an Update of the created document.
C1_Witness ==
    \E w \in Workers :
        /\ Done(w, "list") /\ req[w].resp.status = 200
        /\ req[w].since # {}
        /\ \E k \in 1..Len(req[w].resp.docs) : req[w].resp.docs[k]["name"] = NameY

\* No two documents of the collection share an identifier.
UniqueIds(coll) ==
    \A i, j \in 1..Len(coll) : coll[i]["_id"] = coll[j]["_id"] => i = j

\* What C2 says of every Create that passed BindJSON, apart from the
\* comparison with the input: the identifier sent to the store is the one
\* NewObjectID returned in this request, the 200 response carries it and the
\* stored document has it; identifiers are unique in the collection.
StoresGeneratedId(w) ==
    req[w].op = "create" /\ req[w].pc \in {"insert", "done"} /\ req[w].newId # NilObjectID =>
        /\ req[w].user.Id = req[w].newId
        /\ req[w].pc = "done" /\ req[w].resp.status = 200 =>
              /\ req[w].resp.insertedID = req[w].newId
              /\ Oid(req[w].newId) \in IdsOf(collection)

\* C2 as stated: the stored identifier is the generated one, differs from
\* any `_id` of the input, and identifiers are unique.
C2_Original ==
    /\ UniqueIds(collection)
    /\ \A w \in Workers :
          /\ StoresGeneratedId(w)
          /\ req[w].op = "create" /\ req[w].boundId # NilObjectID =>
                req[w].user.Id # req[w].boundId

\* C2 (amended): the identifier Create stores is the one generated by the
\* server in that request whatever `_id` the body carries, and no two
\* documents share an identifier.
C2_GeneratedIdStored ==
    /\ UniqueIds(collection)
    /\ \A w \in Workers : StoresGeneratedId(w)

\* A Create whose body carried an `_id` was answered 200.
C2_Witness ==
    \E w \in Workers :
        /\ Done(w, "create") /\ req[w].resp.status = 200
        /\ req[w].boundId # NilObjectID
        /\ req[w].boundId # req[w].newId

\* A path identifier in the format of an object identifier: 24 characters,
\* each a hex digit of either case.
IsHexObjectId(s) ==
    /\ Len(s) = 24
    /\ \A i \in 1..Len(s) :
          s[i] \in {"0", "1", "2", "3", "4", "5", "6", "7", "8", "9", "a", "b",
                    "c", "d", "e", "f", "A", "B", "C", "D", "E", "F"}

InvalidParams == {param \in PathParams : ~IsHexObjectId(param)}

\* C3: an Update whose path identifier is not a hex object identifier is
\* answered 400 "Invalid user ID" whatever its body, without a store call
\* and with the collection unchanged.
C3_InvalidIdRejected ==
    [][\A w \in Workers :
          Accepts(w) /\ req'[w].op = "update" =>
              \A param \in InvalidParams, body \in UpdateBodies :
                  ReceiveUpdate(w, param, body) =>
                      /\ req'[w].pc = "done"
                      /\ req'[w].resp = JSONMessage(400, "Invalid user ID")
                      /\ req'[w].calls = <<>>
                      /\ collection' = collection]_vars

\* An Update was answered "Invalid user ID" while the collection held a document.
C3_Witness ==
    \E w \in Workers :
        /\ Done(w, "update") /\ req[w].resp.msg = "Invalid user ID"
        /\ collection # <<>>

\* C4: an Update with a well-formed identifier that matches no document, a
\* JSON object as body and a store that does not fail is answered 404
\* "User not found" and leaves the collection as it was.
C4_NotFoundNoUpsert ==
    [][\A w \in Workers :
          /\ UpdateStore(w, FALSE)
          /\ ~req[w].updatedData.isNil
          /\ Oid(req[w].objId) \notin IdsOf(collection)
          => /\ req'[w].pc = "done"
             /\ req'[w].resp = JSONMessage(404, "User not found")
             /\ collection' = collection]_vars

\* An Update was answered 404 while the collection held a document.
C4_Witness ==
    \E w \in Workers :
        /\ Done(w, "update") /\ req[w].resp.status = 404
        /\ DOMAIN req[w].updatedData.m # {}
        /\ collection # <<>>

\* The step is a partial merge of m into the document at index i: that
\* document holds m's value for every field of m and its old value for
\* every other field, and every other document is as before.
PartialMerge(i, m) ==
    /\ Len(collection') = Len(collection)
    /\ \A f \in DOMAIN m :
          f \in DOMAIN collection'[i] /\ collection'[i][f] = m[f]
    /\ \A f \in DOMAIN collection[i] \ DOMAIN m :
          f \in DOMAIN collection'[i] /\ collection'[i][f] = collection[i][f]
    /\ DOMAIN collection'[i] = DOMAIN collection[i] \cup DOMAIN m
    /\ \A j \in 1..Len(collection) : j # i => collection'[j] = collection[j]

\* C5 as stated, read with the store available: every Update whose
\* identifier matches a document and whose body is a mapping of fields is
\* answered 200 and is a partial merge.
C5_Original ==
    [][\A w \in Workers, i \in 1..Len(collection) :
          /\ UpdateStore(w, FALSE)
          /\ ~req[w].updatedData.isNil
          /\ collection[i]["_id"] = Oid(req[w].objId)
          => /\ req'[w].resp.status = 200
             /\ PartialMerge(i, req[w].updatedData.m)]_vars

\* C5 (amended): an Update whose identifier matches a document and whose
\* body is a mapping of fields other than `_id` is, when the store call does
\* not fail, answered 200 and is a partial merge.
C5_PartialMerge ==
    [][\A w \in Workers, i \in 1..Len(collection) :
          /\ UpdateStore(w, FALSE)
          /\ ~req[w].updatedData.isNil
          /\ "_id" \notin DOMAIN req[w].updatedData.m
          /\ collection[i]["_id"] = Oid(req[w].objId)
          => /\ req'[w].resp = JSONMessage(200, "User updated successfully")
             /\ PartialMerge(i, req[w].updatedData.m)]_vars

\* An Update that set a new field was answered 200, and the document holds
\* that field beside the ones it was created with.
C5_Witness ==
    \E w \in Workers, i \in 1..Len(collection) :
        /\ Done(w, "update") /\ req[w].resp.status = 200
        /\ collection[i]["_id"] = Oid(req[w].objId)
        /\ DOMAIN req[w].updatedData.m = {"age"}
        /\ DOMAIN collection[i] = {"_id", "name", "email", "age"}
        /\ collection[i]["name"] = NameX

\* C6 as stated: a List that succeeds with no document has an empty JSON
\* array as body (documents are never removed, so the collection was empty).
C6_EmptyListIsArray ==
    \A w \in Workers :
        Done(w, "list") /\ req[w].resp.status = 200 /\ req[w].resp.docs = <<>> =>
            req[w].resp.json = "array"

\* A body that deserializes into a models.User.
UserShaped(body) ==
    /\ body.kind # "malformed"
    /\ \A f \in DOMAIN body.fields \cap {"_id", "name"} :
          body.fields[f].t = "string"

BadUserBodies == {body \in CreateBodies : ~UserShaped(body)}

\* C7: a Create whose body does not deserialize into the user shape is
\* answered 400 with the deserialization error before any store access: no
\* identifier is generated, no store call is issued and the collection is
\* unchanged.
C7_BadBodyRejected ==
    [][\A w \in Workers :
          Accepts(w) /\ req'[w].op = "create" =>
              \A body \in BadUserBodies :
                  ReceiveCreate(w, body) =>
                      /\ req'[w].pc = "done"
                      /\ req'[w].resp.status = 400
                      /\ req'[w].resp.msg \in {"invalid character", "cannot unmarshal"}
                      /\ req'[w].calls = <<>>
                      /\ objectIDCounter' = objectIDCounter
                      /\ collection' = collection]_vars

\* A Create was answered 400 for a field of the wrong type.
C7_Witness ==
    \E w \in Workers :
        Done(w, "create") /\ req[w].resp = JSONMessage(400, "cannot unmarshal")

CallsInOrder(r) ==
    /\ r.op = "list" => r.calls \in {<<>>, <<"Find">>, <<"Find", "All">>}
    /\ r.op = "create" => r.calls \in {<<>>, <<"InsertOne">>}
    /\ r.op = "update" => r.calls \in {<<>>, <<"UpdateOne">>}
    /\ r.op = "none" => r.calls = <<>>
    /\ r.pc = "done" /\ r.resp.status # 400 =>
          /\ r.op = "list" /\ r.resp.status = 200 => r.calls = <<"Find", "All">>
          /\ r.op \in {"create", "update"} => Len(r.calls) = 1
    /\ r.calls # <<>> /\ r.err # "" =>
          r.pc = "done" /\ r.resp = JSONMessage(500, r.err)

C9_IdsImmutable ==
    [][\A i \in 1..Len(collection) :
          /\ i <= Len(collection')
          /\ collection'[i]["_id"] = collection[i]["_id"]]_vars

\* An Update whose body carries an `_id` was sent to the store for an
\* existing document, which still has its identifier.
C9_Witness ==
    \E w \in Workers :
        /\ Done(w, "update") /\ req[w].calls = <<"UpdateOne">>
        /\ "_id" \in DOMAIN req[w].updatedData.m
        /\ Oid(req[w].objId) \in IdsOf(collection)

\* Two Updates of the document at index i, both answered.
BothUpdated(i) ==
    /\ i \in 1..Len(collection)
    /\ \A w \in Workers :
          /\ Done(w, "update")
          /\ ~req[w].updatedData.isNil
          /\ collection[i]["_id"] = Oid(req[w].objId)

\* Every field either Update sent holds the value one of the two sent for
\* it: with disjoint field sets the document holds both requests' values.
LastWriteWins(i) ==
    /\ \A w \in Workers : req[w].resp.status = 200
    /\ \A f \in UNION {DOMAIN req[w].updatedData.m : w \in Workers} :
          /\ f \in DOMAIN collection[i]
          /\ \E w \in Workers :
                f \in DOMAIN req[w].updatedData.m
                /\ collection[i][f] = req[w].updatedData.m[f]

\* C10 as stated, read with the store available: two concurrent Updates of
\* the same existing document are both answered 200 and each field ends
\* with a value one of them sent.
C10_Original ==
    \A i \in 1..Len(collection) :
        BothUpdated(i) /\ (\A w \in Workers : req[w].err # "unavailable")
        => LastWriteWins(i)

\* C10 (amended): two concurrent Updates of the same existing document
\* whose bodies map fields other than `_id` are, when neither store call
\* fails, both answered 200 in every interleaving, and each field either
\* sent ends with the value one of them sent for it.
C10_ConcurrentUpdates ==
    \A i \in 1..Len(collection) :
        /\ BothUpdated(i)
        /\ \A w \in Workers :
              /\ "_id" \notin DOMAIN req[w].updatedData.m
              /\ req[w].err # "unavailable"
        => LastWriteWins(i)

\* Two concurrent Updates with disjoint fields were both answered 200 and
\* the document holds both values.
C10_Witness ==
    \E v, w \in Workers :
        /\ BothUpdated(1)
        /\ DOMAIN req[v].updatedData.m = {"name"}
        /\ DOMAIN req[w].updatedData.m = {"age"}
        /\ req[v].resp.status = 200 /\ req[w].resp.status = 200
        /\ collection[1]["name"] = NameY /\ collection[1]["age"] = Num(7)

====
